---- MODULE Spec2Model ----
(***************************************************************************)
(* Model of the ephemeral project execution engine of my_workstation:      *)
(* backend/services/executor.py (session registry, pipeline, worker        *)
(* thread, stop, cleanup) and backend/routers/execute.py (run, stream,     *)
(* stop, update-file, delete handlers).                                    *)
(*                                                                         *)
(* Threads.  The asyncio event loop runs the request handlers, the         *)
(* execute_project task, the SSE generators and the callbacks the worker   *)
(* thread schedules; a loop segment between two suspending awaits is one   *)
(* atomic action.  `await queue.put(x)` on the unbounded asyncio.Queue     *)
(* never suspends.  _run_subprocess_sync runs on a pool thread and         *)
(* interleaves with the loop at every access to the session's fields.      *)
(***************************************************************************)
EXTENDS Integers, Sequences, FiniteSets, TLC

\* ------------------------------------------------------------- bounds
MaxLines == 2
MaxStops == 2
MaxUpdates == 1

\* Threads of the loop's default executor (run_in_executor(None, ...)): CPython
\* sizes it min(32, cpu_count + 4); here one less than the sessions a run can
\* create at once.
PoolSize == 1

\* Files in a tree handed to detect_project_type.
MaxFiles == 2

\* Calls of patch_nodejs_port on the same project directory.
MaxPasses == 2

\* ------------------------------------------------------------- universe
SessionIds == {"s1", "s2"}
ConsumerIds == {"c1", "c2"}

ProjectTypes ==
    {"nextjs", "react-cra", "vite", "nodejs", "python", "simple-web", "unknown"}

NodeFamily == {"nextjs", "react-cra", "vite", "nodejs"}

\* The commands execute_project can hand to run_command, by pipeline step.
Stages == {"install", "pyinstall", "pyretry", "run"}

NoProcess == "none"

Platforms == {"win32", "posix"}

\* sys.platform before stop_session has read it.
Unread == "unread"

\* What a run's environment does at most: the sessions it creates, the types
\* of the projects it submits, the stop requests, the lines a child process
\* writes, the consumers that may open a stream, whether the session is
\* deleted, the update_file requests, and the port the OS hands to
\* get_free_port while no process holds it.  An operator stops and deletes, a
\* viewer streams and stops once, a reader streams the full output, an editor
\* updates files and deletes.
Workloads ==
    { [name |-> "operator", creates |-> {"s1"}, projects |-> ProjectTypes,
       stops |-> MaxStops, lines |-> 1, consumers |-> {}, deletes |-> TRUE,
       updates |-> 0, port |-> 5001],
      [name |-> "viewer", creates |-> {"s1"}, projects |-> ProjectTypes,
       stops |-> 1, lines |-> 1, consumers |-> {"c1"}, deletes |-> FALSE,
       updates |-> 0, port |-> 5002],
      [name |-> "reader", creates |-> {"s1"}, projects |-> ProjectTypes,
       stops |-> 0, lines |-> MaxLines, consumers |-> {"c1"},
       deletes |-> FALSE, updates |-> 0, port |-> 5001],
      [name |-> "editor", creates |-> {"s1"}, projects |-> ProjectTypes,
       stops |-> 0, lines |-> 1, consumers |-> {}, deletes |-> TRUE,
       updates |-> MaxUpdates, port |-> 5002] }

\* Two projects run side by side, nobody stops or deletes them.
PairWorkloads ==
    { [name |-> "pair", creates |-> {"s1", "s2"},
       projects |-> {"nextjs", "vite"}, stops |-> 0, lines |-> 1,
       consumers |-> {}, deletes |-> FALSE, updates |-> 0, port |-> 5001] }

\* One project whose stream several consumers open.
AudienceWorkloads ==
    { [name |-> "audience", creates |-> {"s1"},
       projects |-> {"simple-web", "vite"}, stops |-> 0, lines |-> 1,
       consumers |-> {"c1", "c2"}, deletes |-> FALSE, updates |-> 0,
       port |-> 5002] }

\* requirements.txt as its lines: a package name and its version specifier,
\* or a comment / blank line (name "").
PinnedReq == << [name |-> "flask", pin |-> "==2.0"] >>
CommentReq == << [name |-> "", pin |-> "#"] >>

\* The ports get_free_port returns.
Ports == { w.port : w \in Workloads }

\* The file_path values of update_file requests, as their path segments and
\* separators in order.
UpdatePaths ==
    { << "requirements.txt" >>,
      << "/", "node_modules" >>,
      << "src", "/", "app.py" >>,
      << "..", "\\", "evil.py" >>,
      << "src", "/", "..", "/", "..", "/", "evil.py" >> }

\* Names that are directories when they exist in a project directory.
DirNames == {"node_modules", "src", "app"}

\* The submitted file trees: the project type the classifier gave, the names
\* at the top level of the temp directory, which of them are directories, the
\* names inside the single top-level directory when there is one, and the
\* content of requirements.txt.
Layouts ==
    { [type |-> "unknown",    top |-> {},                              dirs |-> {},
       inner |-> {},                               req |-> << >>],
      [type |-> "simple-web", top |-> {"index.html"},                  dirs |-> {},
       inner |-> {},                               req |-> << >>],
      [type |-> "nextjs",     top |-> {"package.json"},                dirs |-> {},
       inner |-> {},                               req |-> << >>],
      [type |-> "vite",       top |-> {"app"},                         dirs |-> {"app"},
       inner |-> {"package.json", "node_modules"}, req |-> << >>],
      [type |-> "nodejs",     top |-> {"package-lock.json", "server.js"}, dirs |-> {},
       inner |-> {},                               req |-> << >>],
      [type |-> "python",     top |-> {"requirements.txt", "main.py"}, dirs |-> {},
       inner |-> {},                               req |-> PinnedReq],
      [type |-> "python",     top |-> {"requirements.txt"},            dirs |-> {},
       inner |-> {},                               req |-> CommentReq] }

\* The names find_project_root looks for.
RootMarkers == {"package.json", "package-lock.json", "requirements.txt"}

\* find_project_root: the temp directory itself ("base") or its single
\* subdirectory ("sub").
FindProjectRoot(l) ==
    IF l.top \cap RootMarkers # {} THEN "base"
    ELSE IF /\ Cardinality(l.top) = 1
            /\ l.top \subseteq l.dirs
            /\ l.inner \cap (RootMarkers \cup {"src"}) # {}
    THEN "sub"
    ELSE "base"

VARIABLES
    platform,        \* sys.platform of the host, from its first read on
    workload,        \* the callers of this run
    active_sessions, \* the registry: ids of the sessions in it
    created,         \* ids create_session has ever returned
    cleaned,         \* ids cleanup_session has been called with
    project_type,    \* session.project_type
    port,            \* session.port
    project_dir,     \* session.project_dir: "base" (the temp dir) or "sub"
    temp_dir,        \* whether the directory mkdtemp created exists on disk
    files,           \* names present in session.project_dir
    requirements,    \* content of project_dir/requirements.txt
    workspace,       \* whether session.project_dir exists on disk
    command,         \* the command the task last handed to run_command
    nupdates,        \* update_file requests made so far
    lastUpdate,      \* the last update_file request: id, path, response status
    process,         \* session.process: NoProcess or the step whose Popen it is
    is_running,      \* session.is_running
    should_stop,     \* session.should_stop
    output_queue,    \* session.output_queue
    putLog,          \* every item ever put on output_queue, in put order
    dequeued,        \* every item ever taken from output_queue, in get order
    epc,             \* position of the execute_project task
    stage,           \* the step whose run_command the task awaits
    wpc,             \* position of the worker thread in _run_subprocess_sync
    nread,           \* lines the worker has read from the current process
    relayed,         \* lines the worker handed to output_callback, in order
    loopq,           \* callbacks the worker scheduled on the loop, FIFO
    alive,           \* OS processes alive: <<step, "child" | "desc">>
    exitc,           \* returncode of the current step's direct child
    spc,             \* position of the stop_session call in flight
    stopTarget,      \* the process handle that call found, NoProcess if none
    nstops,          \* stop_session calls made so far
    lastStop,        \* the last stop_session call that returned: id, result,
                     \* and whether its except clause caught an exception
    stopTrue,        \* sessions for which stop_session has returned True
    cpc,             \* SSE generator: "off", "on", "ended"
    csess,           \* the session a generator streams
    lastEvent,       \* the last SSE event a generator yielded
    received,        \* the items a generator dequeued, in order
    backlog,         \* until a generator's first get: the items in the queue
                     \* that were put before it connected
    tree,            \* the file tree handed to detect_project_type
    detected,        \* what detect_project_type returned or raised for it
    program,         \* the statements of the entry file as it was submitted
    content,         \* the text of the entry file on disk
    reports          \* per patch_nodejs_port call: whether it listed the file

vars ==
    << platform, workload, active_sessions, created, cleaned, project_type, port,
       project_dir, temp_dir, files, requirements, workspace, command, nupdates,
       lastUpdate, process, is_running, should_stop, output_queue, putLog,
       dequeued, epc, stage, wpc, nread, relayed, loopq, alive, exitc, spc,
       stopTarget, nstops, lastStop, stopTrue, cpc, csess, lastEvent, received,
       backlog, tree, detected, program, content, reports >>

\* The ids run_project hands out in this run; any other id is one no session
\* ever has.
Creatable == workload.creates

\* ------------------------------------------------------------- items
Msg(tag) == << "msg", tag, 0 >>
Cmd(st) == << "cmd", st, 0 >>
Line(st, n) == << "line", st, n >>
ExitMsg(rc) == << "exit", "", rc >>
EndMarker == << "end", "", 0 >>
Done(rc) == << "done", "", rc >>

IsLine(item) == item[1] = "line"

\* A shell command as far as its port is concerned: how it binds a port (a
\* command-line flag, a PORT environment assignment, or not at all) and which.
Command(tool, bind, p) == [tool |-> tool, bind |-> bind, port |-> p]

NoCommand == Command("none", "none", 0)

RECURSIVE SelectLines(_)
SelectLines(q) ==
    IF q = << >> THEN << >>
    ELSE IF IsLine(Head(q)) THEN << Head(q) >> \o SelectLines(Tail(q))
    ELSE SelectLines(Tail(q))

RECURSIVE CountEnd(_)
CountEnd(q) ==
    IF q = << >> THEN 0
    ELSE (IF Head(q) = EndMarker THEN 1 ELSE 0) + CountEnd(Tail(q))

\* The state of the module after import: no session, nothing running.
Constructed ==
    /\ platform = Unread
    /\ active_sessions = {}
    /\ created = {}
    /\ cleaned = {}
    /\ project_type = [s \in SessionIds |-> "unknown"]
    /\ port = [s \in SessionIds |-> 0]
    /\ project_dir = [s \in SessionIds |-> "base"]
    /\ temp_dir = [s \in SessionIds |-> FALSE]
    /\ command = [s \in SessionIds |-> NoCommand]
    /\ nupdates = 0
    /\ lastUpdate = [id |-> "none", path |-> << >>, status |-> 0]
    /\ files = [s \in SessionIds |-> {}]
    /\ requirements = [s \in SessionIds |-> << >>]
    /\ workspace = [s \in SessionIds |-> FALSE]
    /\ process = [s \in SessionIds |-> NoProcess]
    /\ is_running = [s \in SessionIds |-> FALSE]
    /\ should_stop = [s \in SessionIds |-> FALSE]
    /\ output_queue = [s \in SessionIds |-> << >>]
    /\ putLog = [s \in SessionIds |-> << >>]
    /\ dequeued = [s \in SessionIds |-> << >>]
    /\ epc = [s \in SessionIds |-> "none"]
    /\ stage = [s \in SessionIds |-> "none"]
    /\ wpc = [s \in SessionIds |-> "idle"]
    /\ nread = [s \in SessionIds |-> 0]
    /\ relayed = [s \in SessionIds |-> << >>]
    /\ loopq = [s \in SessionIds |-> << >>]
    /\ alive = [s \in SessionIds |-> {}]
    /\ exitc = [s \in SessionIds |-> 0]
    /\ spc = [s \in SessionIds |-> "idle"]
    /\ stopTarget = [s \in SessionIds |-> NoProcess]
    /\ nstops = 0
    /\ lastStop = [id |-> "none", ret |-> "none", caught |-> FALSE]
    /\ stopTrue = {}
    /\ cpc = [c \in ConsumerIds |-> "off"]
    /\ csess = [c \in ConsumerIds |-> "none"]
    /\ lastEvent = [c \in ConsumerIds |-> "none"]
    /\ received = [c \in ConsumerIds |-> << >>]
    /\ backlog = [c \in ConsumerIds |-> 0]
    /\ detected = "none"
    /\ reports = << >>

\* No entry file is looked at.
NoEntryFile == program = << >> /\ content = << >>

Init == workload \in Workloads /\ tree = << >> /\ NoEntryFile /\ Constructed

\* ------------------------------------------------------------- frames
fsVars == << project_type, port, project_dir, temp_dir, files, requirements, workspace >>
regVars == << active_sessions, created, cleaned >>
flagVars == << process, is_running, should_stop >>
qVars == << output_queue, putLog, dequeued >>
taskVars == << epc, stage, command >>
updVars == << nupdates, lastUpdate >>
workerVars == << wpc, nread, relayed, loopq >>
osVars == << alive, exitc >>
stopVars == << spc, stopTarget, nstops, lastStop, stopTrue >>
consVars == << cpc, csess, lastEvent, received, backlog >>
patchVars == << program, content, reports >>
classVars == << tree, detected, patchVars >>

\* The event loop is inside a stop_session segment that has not reached an
\* await: no other coroutine runs until it does.
LoopFree == \A s \in SessionIds : spc[s] \notin {"check", "kill"}

\* The caller learns a session id from run_project's response, which is sent
\* after the execute_project task was scheduled: the task's first segment runs
\* before any request that names the id.
Announced(s) == epc[s] # "start"


\* ------------------------------------------------------------- pipeline
Plan(puts, next) == [puts |-> puts, next |-> next]

\* Mutant: comment and blank lines are kept as package names.
StripPinsKeepsAll(req) == req

\* execute_project: the package names left after stripping the version pins.
StripPins(req) == SelectSeq(req, LAMBDA l : l.name # "")

\* Mutant: every run_command call signals the end (signal_end left at its
\* default).
SignalEndDefault(st) == TRUE

\* run_command's signal_end argument, by step.
SignalEnd(st) == st = "run"

\* run_command after the executor future resolved: the exit message, and the
\* end marker when signal_end.
RunCommandTail(st, rc) ==
    << ExitMsg(rc) >> \o (IF SignalEnd(st) THEN << EndMarker >> ELSE << >>)

\* get_run_commands: the run command of a project type for a port.
GetRunCommands(type, p) ==
    CASE type = "nextjs"    -> Command("npm run dev", "flag", p)
      [] type = "react-cra" -> Command("npm start", "env", p)
      [] type = "vite"      -> Command("npm run dev", "flag", p)
      [] type = "nodejs"    -> Command("npx nodemon", "env", p)
      [] type = "python"    -> Command("python main.py", "none", 0)
      [] OTHER              -> Command("", "none", 0)

\* execute_project: Path(project_dir).glob("*.py").
PyFiles(s) == files[s] \cap {"main.py", "app.py"}

\* execute_project: the framework named in requirements.txt.
IsFastapi(s) ==
    /\ "requirements.txt" \in files[s]
    /\ \E i \in 1 .. Len(requirements[s]) :
           requirements[s][i].name \in {"fastapi", "uvicorn"}

IsFlask(s) ==
    /\ "requirements.txt" \in files[s]
    /\ \E i \in 1 .. Len(requirements[s]) : requirements[s][i].name = "flask"

\* execute_project: the run command it hands to run_command; the python
\* branch replaces get_run_commands' result only when a .py file is found.
RunCmd(s) ==
    IF project_type[s] = "python" /\ PyFiles(s) # {}
    THEN IF IsFastapi(s) THEN Command("uvicorn", "flag", port[s])
         ELSE IF IsFlask(s) THEN Command("flask run", "flag", port[s])
         ELSE Command("python", "env", port[s])
    ELSE GetRunCommands(project_type[s], port[s])

\* The command of a pipeline step.
CommandOf(s, st) ==
    CASE st = "install"   -> Command("npm install", "none", 0)
      [] st = "pyinstall" -> Command("pip install -r requirements.txt", "none", 0)
      [] st = "pyretry"   -> Command("pip install", "none", 0)
      [] OTHER            -> RunCmd(s)

\* execute_project: framework detection and the run step.
RunStep(s) == Plan(<< >>, "run")

\* execute_project: the python install step.
PythonStep(s) ==
    IF project_type[s] = "python" /\ "requirements.txt" \in files[s]
    THEN Plan(<< >>, "pyinstall")
    ELSE RunStep(s)

\* Mutant: the install command is run for every node-family session.
InstallStepAlways(s) ==
    IF project_type[s] \in NodeFamily THEN Plan(<< >>, "install") ELSE PythonStep(s)

\* execute_project: the node install step.
InstallStep(s) ==
    IF project_type[s] \in NodeFamily /\ "node_modules" \notin files[s]
    THEN IF "package.json" \notin files[s]
         THEN Plan(<< Msg("nopackagejson") >> \o PythonStep(s).puts, PythonStep(s).next)
         ELSE Plan(<< >>, "install")
    ELSE PythonStep(s)

\* Mutant: the early return puts its message and no end marker.
StartPlanNoMarker(s) ==
    IF project_type[s] \in {"unknown", "simple-web"}
    THEN Plan(<< Msg("unknown") >>, "done")
    ELSE Plan(<< Msg("detected"), Msg("devport") >> \o InstallStep(s).puts,
              InstallStep(s).next)

\* Mutant: execute_project does not return early for any project type.
StartPlanAlwaysRuns(s) ==
    Plan(<< Msg("detected"), Msg("devport") >> \o InstallStep(s).puts,
         InstallStep(s).next)

\* execute_project from its first line to its first suspension.
StartPlan(s) ==
    IF project_type[s] = "unknown"
    THEN Plan(<< Msg("unknown"), EndMarker >>, "done")
    ELSE IF project_type[s] = "simple-web"
    THEN Plan(<< Msg("simpleweb"), EndMarker >>, "done")
    ELSE Plan(<< Msg("detected"), Msg("devport") >>
              \o (IF project_type[s] = "nodejs" THEN << Msg("nodemon") >> ELSE << >>)
              \o InstallStep(s).puts,
              InstallStep(s).next)

\* Mutant: a failed install step does not abort the pipeline.
AfterStepIgnoresFailure(s, st, rc) ==
    IF st = "run" THEN Plan(<< >>, "done") ELSE RunStep(s)

\* Mutant: the pipeline starts the run command again after every step.
AfterStepRestarts(s, st, rc) == RunStep(s)

\* execute_project after run_command returned rc for step st.
AfterStep(s, st, rc) ==
    CASE st = "install" ->
            IF rc # 0 THEN Plan(<< EndMarker >>, "done") ELSE PythonStep(s)
      [] st = "pyinstall" ->
            IF rc = 0 THEN RunStep(s)
            ELSE IF "requirements.txt" \notin files[s]
            THEN Plan(<< Msg("retry") >>, "raised")
            ELSE IF StripPins(requirements[s]) # << >>
            THEN Plan(<< Msg("retry") >>, "pyretry")
            ELSE Plan(<< Msg("retry"), EndMarker >>, "done")
      [] st = "pyretry" ->
            IF rc # 0 THEN Plan(<< EndMarker >>, "done") ELSE RunStep(s)
      [] OTHER -> Plan(<< >>, "done")

\* The loop segment that puts `pre`, follows `plan`, and ends either with the
\* task finished or inside the next run_command, at run_in_executor.
ApplyPlan(s, pre, plan) ==
    LET starts == plan.next \in Stages
        puts == pre \o plan.puts \o (IF starts THEN << Cmd(plan.next) >> ELSE << >>)
    IN  /\ output_queue' = [output_queue EXCEPT ![s] = @ \o puts]
        /\ putLog' = [putLog EXCEPT ![s] = @ \o puts]
        /\ UNCHANGED dequeued
        /\ is_running' = [is_running EXCEPT ![s] = starts]
        /\ epc' = [epc EXCEPT ![s] = IF starts THEN "wait" ELSE plan.next]
        /\ stage' = [stage EXCEPT ![s] = IF starts THEN plan.next ELSE "none"]
        /\ command' = [command EXCEPT
                          ![s] = IF starts THEN CommandOf(s, plan.next) ELSE @]
        /\ wpc' = [wpc EXCEPT ![s] = IF starts THEN "spawn" ELSE "idle"]

\* The processes of a pipeline step: the shell Popen starts and what it starts.
Tree(st) == { << st, "child" >>, << st, "desc" >> }

\* The ports some live process holds: a session's port from the moment the
\* process of its run command exists, when that command binds the port.
BoundPorts ==
    { port[s] : s \in { t \in SessionIds : /\ Tree("run") \cap alive[t] # {}
                                            /\ command[t].bind # "none" } }

\* get_free_port: bind(('', 0)) gives a port no process holds at that moment;
\* the socket is closed again before the port is returned.
GetFreePort(p) ==
    /\ p \in Ports \ BoundPorts
    /\ workload.port \notin BoundPorts => p = workload.port

\* POST /run: create_session (mkdtemp, write_files_to_disk,
\* find_project_root, detect_project_type, get_free_port, the registry store,
\* two messages), then create_task(execute_project(session)).
RunProject(s, layout, p) ==
    /\ LoopFree
    /\ s \in Creatable \ created
    /\ layout.type \in workload.projects
    /\ created' = created \cup {s}
    /\ active_sessions' = active_sessions \cup {s}
    /\ UNCHANGED cleaned
    /\ project_type' = [project_type EXCEPT ![s] = layout.type]
    /\ GetFreePort(p)
    /\ port' = [port EXCEPT ![s] = p]
    /\ temp_dir' = [temp_dir EXCEPT ![s] = TRUE]
    /\ project_dir' = [project_dir EXCEPT ![s] = FindProjectRoot(layout)]
    /\ files' = [files EXCEPT
                    ![s] = IF FindProjectRoot(layout) = "sub"
                           THEN layout.inner ELSE layout.top]
    /\ requirements' = [requirements EXCEPT ![s] = layout.req]
    /\ workspace' = [workspace EXCEPT ![s] = TRUE]
    /\ output_queue' = [output_queue EXCEPT ![s] = << Msg("created"), Msg("port") >>]
    /\ putLog' = [putLog EXCEPT ![s] = << Msg("created"), Msg("port") >>]
    /\ UNCHANGED dequeued
    /\ epc' = [epc EXCEPT ![s] = "start"]
    /\ UNCHANGED << platform, workload, classVars, updVars, flagVars, stage, command, workerVars, osVars,
                    stopVars, consVars >>

\* The execute_project task's first segment.
ExecStart(s) ==
    /\ LoopFree
    /\ epc[s] = "start"
    /\ ApplyPlan(s, << >>, StartPlan(s))
    /\ UNCHANGED << platform, workload, classVars, updVars, regVars, fsVars, process, should_stop, nread, relayed,
                    loopq, osVars, stopVars, consVars >>

\* Mutant: the newest callback runs first.
HandoffNewestFirst(q, item) == << item >> \o q

\* How the worker thread's callbacks reach the loop: call_soon_threadsafe
\* appends to the loop's ready queue.
Handoff(q, item) == Append(q, item)

\* The loop runs the oldest callback the worker scheduled: a queue put of a
\* line, or the executor future's completion, which resumes run_command.
LoopDeliver(s) ==
    /\ LoopFree
    /\ loopq[s] # << >>
    /\ loopq' = [loopq EXCEPT ![s] = Tail(@)]
    /\ LET h == Head(loopq[s])
       IN  IF h[1] = "done"
           THEN /\ ApplyPlan(s, RunCommandTail(stage[s], h[3]), AfterStep(s, stage[s], h[3]))
                /\ UNCHANGED << nread, relayed >>
           ELSE /\ output_queue' = [output_queue EXCEPT ![s] = Append(@, h)]
                /\ putLog' = [putLog EXCEPT ![s] = Append(@, h)]
                /\ UNCHANGED dequeued
                /\ UNCHANGED << is_running, taskVars, wpc, nread, relayed >>
    /\ UNCHANGED << platform, workload, classVars, updVars, regVars, fsVars, process, should_stop, osVars,
                    stopVars, consVars >>

\* ------------------------------------------------------------- worker thread
\* The sessions whose _run_subprocess_sync call occupies a pool thread.
Busy == { t \in SessionIds : wpc[t] \in {"read", "relay", "wait"} }

\* Mutant: the except clause returns -1 without reporting the exception.
SubprocessErrorSilent(q) == Handoff(q, Done(-1))

\* _run_subprocess_sync's except clause: the diagnostic line goes through
\* output_callback, then the call returns -1.
SubprocessError(q) == Handoff(Handoff(q, Msg("suberr")), Done(-1))

\* A pool thread takes the call run_in_executor submitted;
\* subprocess.Popen(command, shell=True, cwd=project_dir) and the store of
\* session.process; a missing cwd raises, which the except clause reports
\* through output_callback before returning -1.
WSpawn(s) ==
    /\ wpc[s] = "spawn"
    /\ Cardinality(Busy) < PoolSize
    /\ IF ~workspace[s]
       THEN /\ loopq' = [loopq EXCEPT ![s] = SubprocessError(@)]
            /\ wpc' = [wpc EXCEPT ![s] = "idle"]
            /\ UNCHANGED << process, nread, alive >>
       ELSE /\ \E d \in BOOLEAN :
                 alive' = [alive EXCEPT
                             ![s] = @ \cup { << stage[s], "child" >> }
                                      \cup (IF d THEN { << stage[s], "desc" >> } ELSE {})]
            /\ process' = [process EXCEPT ![s] = stage[s]]
            /\ nread' = [nread EXCEPT ![s] = 0]
            /\ wpc' = [wpc EXCEPT ![s] = "read"]
            /\ UNCHANGED loopq
    /\ UNCHANGED << platform, workload, classVars, updVars, regVars, fsVars, is_running, should_stop, qVars,
                    taskVars, relayed, exitc, stopVars, consVars >>

\* Mutant: the read loop does not test the stop flag.
ReaderNeverBreaks(s) == FALSE

\* The read loop's test of the stop flag on a line it has read.
ReaderBreaks(s) == should_stop[s]

\* process.stdout.readline(): a line while a process holding the pipe is
\* alive, b'' once none is; then the test of session.should_stop.
WRead(s) ==
    /\ wpc[s] = "read"
    /\ \/ /\ Tree(stage[s]) \cap alive[s] # {}
          /\ nread[s] < workload.lines
          /\ nread' = [nread EXCEPT ![s] = @ + 1]
          /\ wpc' = [wpc EXCEPT ![s] = IF ReaderBreaks(s) THEN "wait" ELSE "relay"]
       \/ /\ Tree(stage[s]) \cap alive[s] = {}
          /\ wpc' = [wpc EXCEPT ![s] = "wait"]
          /\ UNCHANGED nread
    /\ UNCHANGED << platform, workload, classVars, updVars, regVars, fsVars, flagVars, qVars, taskVars, relayed,
                    loopq, osVars, stopVars, consVars >>

\* output_callback(decoded): run_coroutine_threadsafe(queue.put(text), loop).
WRelay(s) ==
    /\ wpc[s] = "relay"
    /\ loopq' = [loopq EXCEPT ![s] = Handoff(@, Line(stage[s], nread[s]))]
    /\ relayed' = [relayed EXCEPT ![s] = Append(@, Line(stage[s], nread[s]))]
    /\ wpc' = [wpc EXCEPT ![s] = "read"]
    /\ UNCHANGED << platform, workload, classVars, updVars, regVars, fsVars, flagVars, qVars, taskVars, nread,
                    osVars, stopVars, consVars >>

\* Mutant: the worker returns without waiting for the child.
WaitReturnsAtOnce(s) == TRUE

\* process.wait() returns once the direct child has exited.
WaitReturns(s) == << stage[s], "child" >> \notin alive[s]

\* process.wait(), return process.returncode or 0, finally session.process =
\* None; the executor future's completion is scheduled on the loop.  The
\* call's locals (the Popen object, the line count) end with it.
WWait(s) ==
    /\ wpc[s] = "wait"
    /\ WaitReturns(s)
    /\ process' = [process EXCEPT ![s] = NoProcess]
    /\ loopq' = [loopq EXCEPT ![s] = Handoff(@, Done(exitc[s]))]
    /\ wpc' = [wpc EXCEPT ![s] = "idle"]
    /\ nread' = [nread EXCEPT ![s] = 0]
    /\ exitc' = [exitc EXCEPT ![s] = 0]
    /\ UNCHANGED << platform, workload, classVars, updVars, regVars, fsVars, is_running, should_stop, qVars,
                    taskVars, relayed, alive, stopVars, consVars >>

\* ------------------------------------------------------------- child processes
\* The shell the step spawned exits by itself.
ChildExit(s, st, rc) ==
    /\ << st, "child" >> \in alive[s]
    /\ alive' = [alive EXCEPT ![s] = @ \ { << st, "child" >> }]
    /\ exitc' = [exitc EXCEPT ![s] = rc]
    /\ UNCHANGED << platform, workload, classVars, updVars, regVars, fsVars, flagVars, qVars, taskVars, workerVars,
                    stopVars, consVars >>

\* A process the shell spawned (npm, node, a reload worker) exits by itself.
DescExit(s, st) ==
    /\ << st, "desc" >> \in alive[s]
    /\ alive' = [alive EXCEPT ![s] = @ \ { << st, "desc" >> }]
    /\ UNCHANGED << platform, workload, classVars, updVars, regVars, fsVars, flagVars, qVars, taskVars, workerVars,
                    exitc, stopVars, consVars >>

\* ------------------------------------------------------------- stop_session
\* Mutant: the exception leaves stop_session.
OnKillErrorPropagates == "raise"

\* What stop_session does with an exception raised inside its try block:
\* `except Exception` prints it and execution falls through to the tail.
OnKillError == "return"

\* stop_session's tail (is_running = False; return True), or the exception
\* leaving the handler.
StopFinish(s, how, caught) ==
    /\ spc' = [spc EXCEPT ![s] = "idle"]
    /\ stopTarget' = [stopTarget EXCEPT ![s] = NoProcess]
    /\ IF how = "return"
       THEN /\ is_running' = [is_running EXCEPT ![s] = FALSE]
            /\ lastStop' = [id |-> s, ret |-> "true", caught |-> caught]
            /\ stopTrue' = stopTrue \cup {s}
       ELSE /\ lastStop' = [id |-> s, ret |-> "raised", caught |-> FALSE]
            /\ UNCHANGED << is_running, stopTrue >>

\* Mutant: the lookup result is not tested.
StopFindsAny(s) == TRUE

\* What stop_session returns for an id: the registry lookup.
StopFinds(s) == s \in active_sessions

\* stop_session up to the store of should_stop.
StopCall(s) ==
    /\ LoopFree
    /\ Announced(s)
    /\ spc[s] = "idle"
    /\ nstops < workload.stops
    /\ nstops' = nstops + 1
    /\ IF StopFinds(s)
       THEN /\ should_stop' = [should_stop EXCEPT ![s] = TRUE]
            /\ spc' = [spc EXCEPT ![s] = "check"]
            /\ UNCHANGED lastStop
       ELSE /\ lastStop' = [id |-> s, ret |-> "false", caught |-> FALSE]
            /\ UNCHANGED << should_stop, spc >>
    /\ UNCHANGED << platform, workload, classVars, updVars, regVars, fsVars, process, is_running, qVars, taskVars,
                    workerVars, osVars, stopTarget, stopTrue, consVars >>

\* `if session.process and session.is_running:`
StopCheck(s) ==
    /\ spc[s] = "check"
    /\ IF process[s] # NoProcess /\ is_running[s]
       THEN /\ spc' = [spc EXCEPT ![s] = "kill"]
            /\ stopTarget' = [stopTarget EXCEPT ![s] = process[s]]
            /\ UNCHANGED << is_running, lastStop, stopTrue >>
       ELSE StopFinish(s, "return", FALSE)
    /\ UNCHANGED << platform, workload, classVars, updVars, regVars, fsVars, process, should_stop, qVars, taskVars,
                    workerVars, osVars, nstops, consVars >>

\* The processes `taskkill /F /T /PID pid` ends: the child and its tree; none
\* when no process has that pid any more (taskkill reports an error, which
\* stop_session prints).
TaskkillTargets(s) ==
    IF << process[s], "child" >> \in alive[s] THEN Tree(process[s]) ELSE {}

\* The processes the netstat scan finds bound to the session's port: the dev
\* server the run step's shell started.
PortScanTargets(s) == { << "run", "desc" >> }

\* The processes Popen.terminate() and Popen.kill() signal: the direct child.
SignalTargets(s) == { << process[s], "child" >> }

\* The kill calls inside the try block; session.process is read again and the
\* worker thread may have cleared it.
StopKill(s) ==
    /\ spc[s] = "kill"
    /\ IF platform = Unread /\ process[s] # NoProcess
       THEN platform' \in Platforms
       ELSE UNCHANGED platform
    /\ IF process[s] = NoProcess
       THEN /\ StopFinish(s, OnKillError, TRUE)
            /\ UNCHANGED osVars
       ELSE IF platform' = "win32"
       THEN /\ alive' = [alive EXCEPT
                           ![s] = (@ \ TaskkillTargets(s)) \ PortScanTargets(s)]
            /\ exitc' = [exitc EXCEPT
                           ![s] = IF << process[s], "child" >> \in alive[s] THEN 1 ELSE @]
            /\ StopFinish(s, "return", FALSE)
       ELSE /\ \E dies \in BOOLEAN :
                 IF dies /\ SignalTargets(s) \cap alive[s] # {}
                 THEN /\ alive' = [alive EXCEPT ![s] = @ \ SignalTargets(s)]
                      /\ exitc' = [exitc EXCEPT ![s] = -15]
                 ELSE UNCHANGED osVars
            /\ spc' = [spc EXCEPT ![s] = "sleep"]
            /\ UNCHANGED << is_running, stopTarget, lastStop, stopTrue >>
    /\ UNCHANGED << workload, classVars, updVars, regVars, fsVars, process, should_stop, qVars, taskVars,
                    workerVars, nstops, consVars >>

\* After asyncio.sleep(0.5): poll(), kill() if the child has not exited, then
\* the tail.
StopAfterSleep(s) ==
    /\ LoopFree
    /\ spc[s] = "sleep"
    /\ IF process[s] = NoProcess
       THEN /\ StopFinish(s, OnKillError, TRUE)
            /\ UNCHANGED osVars
       ELSE /\ IF SignalTargets(s) \cap alive[s] # {}
               THEN /\ alive' = [alive EXCEPT ![s] = @ \ SignalTargets(s)]
                    /\ exitc' = [exitc EXCEPT ![s] = -9]
               ELSE UNCHANGED osVars
            /\ StopFinish(s, "return", FALSE)
    /\ UNCHANGED << platform, workload, classVars, updVars, regVars, fsVars, process, should_stop, qVars, taskVars,
                    workerVars, nstops, consVars >>

\* ------------------------------------------------------------- cleanup_session
\* Mutant: cleanup_session leaves the registry entry in place.
EvictKeeps(reg, s) == reg

\* active_sessions.pop(session_id, None)
Evict(reg, s) == reg \ {s}

\* Mutant: cleanup_session requests a stop of the session it evicts.
CleanupRequestsStop == TRUE

\* Whether cleanup_session touches the session's stop flag: it calls neither
\* stop_session nor any method of the process.
CleanupStops == FALSE

\* DELETE /session/{id}: active_sessions.pop and shutil.rmtree(project_dir).
\* The caller names an id a run_project response gave it, or one that no
\* session ever has.
Cleanup(s) ==
    /\ workload.deletes
    /\ LoopFree
    /\ Announced(s)
    /\ s \in created \/ s \notin Creatable
    /\ IF s \in active_sessions
       THEN /\ active_sessions' = Evict(active_sessions, s)
            /\ files' = [files EXCEPT ![s] = {}]
            /\ requirements' = [requirements EXCEPT ![s] = << >>]
            /\ workspace' = [workspace EXCEPT ![s] = FALSE]
            /\ temp_dir' = [temp_dir EXCEPT
                               ![s] = IF project_dir[s] = "base" THEN FALSE ELSE @]
       ELSE UNCHANGED << active_sessions, files, requirements, workspace, temp_dir >>
    /\ cleaned' = cleaned \cup {s}
    /\ should_stop' = [should_stop EXCEPT
                          ![s] = @ \/ (s \in active_sessions /\ CleanupStops)]
    /\ UNCHANGED << platform, workload, classVars, updVars, created, project_type, port, project_dir,
                    process, is_running, qVars, taskVars, workerVars, osVars, stopVars,
                    consVars >>

\* ------------------------------------------------------------- update_file
\* file_path.replace("\\", "/").lstrip("/")
RECURSIVE LStrip(_)
LStrip(path) ==
    IF path # << >> /\ Head(path) = "/" THEN LStrip(Tail(path)) ELSE path

Sanitize(raw) ==
    LStrip([i \in 1 .. Len(raw) |-> IF raw[i] = "\\" THEN "/" ELSE raw[i]])

\* Mutant: the traversal test is skipped.
TraversalIgnored(path) == FALSE

\* `".." in file_path`; of the names in UpdatePaths only ".." contains it.
HasTraversal(path) == \E i \in 1 .. Len(path) : path[i] = ".."

\* The names along a sanitized path, separators removed.
Segments(path) == SelectSeq(path, LAMBDA x : x # "/")

\* The entry of project_dir a write to the path creates or replaces; ".."
\* stands for a location outside project_dir.
Target(segs) ==
    IF \E i \in 1 .. Len(segs) : segs[i] = ".." THEN ".." ELSE Head(segs)

\* os.makedirs(dirname(full_path), exist_ok=True) or open(full_path, "w")
\* raises: a parent that is a file, or a target that is a directory.
WriteFails(s, segs) ==
    /\ Head(segs) \in files[s]
    /\ (Len(segs) = 1) = (Head(segs) \in DirNames)

\* POST /update-file: 404 for an id not in the registry, 400 for a path with
\* "..", else the write under project_dir (500 when it raises).
UpdateFile(s, raw) ==
    /\ LoopFree
    /\ Announced(s)
    /\ nupdates < workload.updates
    /\ nupdates' = nupdates + 1
    /\ LET path == Sanitize(raw)
           segs == Segments(path)
           reply(st) == lastUpdate' = [id |-> s, path |-> raw, status |-> st]
       IN  IF s \notin active_sessions
           THEN /\ reply(404)
                /\ UNCHANGED << files, requirements, workspace, temp_dir >>
           ELSE IF HasTraversal(path)
           THEN /\ reply(400)
                /\ UNCHANGED << files, requirements, workspace, temp_dir >>
           ELSE IF WriteFails(s, segs)
           THEN /\ reply(500)
                /\ UNCHANGED << files, requirements, workspace, temp_dir >>
           ELSE /\ reply(200)
                /\ files' = [files EXCEPT ![s] = @ \cup { Target(segs) }]
                /\ requirements' = [requirements EXCEPT
                                       ![s] = IF segs = << "requirements.txt" >>
                                              THEN CommentReq ELSE @]
                /\ workspace' = [workspace EXCEPT ![s] = TRUE]
                /\ temp_dir' = [temp_dir EXCEPT ![s] = TRUE]
    /\ UNCHANGED << platform, workload, classVars, regVars, project_type, port, project_dir,
                    flagVars, qVars, taskVars, workerVars, osVars, stopVars, consVars >>

\* ------------------------------------------------------------- stream_output
\* GET /stream/{id}: the registry lookup, then the generator's first event.
Connect(c, s) ==
    /\ c \in workload.consumers
    /\ LoopFree
    /\ Announced(s)
    /\ cpc[c] = "off"
    /\ s \in active_sessions
    /\ cpc' = [cpc EXCEPT ![c] = "on"]
    /\ csess' = [csess EXCEPT ![c] = s]
    /\ lastEvent' = [lastEvent EXCEPT ![c] = "connected"]
    /\ backlog' = [backlog EXCEPT ![c] = Len(output_queue[s])]
    /\ UNCHANGED << platform, workload, classVars, updVars, regVars, fsVars, flagVars, qVars, taskVars, workerVars,
                    osVars, stopVars, received >>

\* Mutant: get() hands out the oldest item and discards the one behind it.
GetDropsNext(q) == IF Len(q) > 1 THEN Tail(Tail(q)) ELSE Tail(q)

\* Mutant: get() hands out the oldest item and leaves it in the queue.
GetKeeps(q) == q

\* The queue after output_queue.get() returned its oldest item.
Get(q) == Tail(q)

\* wait_for(queue.get()) returned an item: [END] for None, a data event else.
ConsumerGet(c) ==
    /\ LoopFree
    /\ cpc[c] = "on"
    /\ output_queue[csess[c]] # << >>
    /\ LET h == Head(output_queue[csess[c]])
       IN  /\ output_queue' = [output_queue EXCEPT ![csess[c]] = Get(@)]
           /\ dequeued' = [dequeued EXCEPT ![csess[c]] = Append(@, h)]
           /\ received' = [received EXCEPT ![c] = Append(@, h)]
           /\ cpc' = [cpc EXCEPT ![c] = IF h = EndMarker THEN "ended" ELSE "on"]
           /\ lastEvent' = [lastEvent EXCEPT ![c] = IF h = EndMarker THEN "end" ELSE "data"]
           /\ backlog' = [d \in ConsumerIds |->
                             IF d = c THEN 0
                             ELSE IF csess[d] = csess[c] /\ backlog[d] > 0
                             THEN backlog[d] - 1 ELSE backlog[d]]
    /\ UNCHANGED << platform, workload, classVars, updVars, regVars, fsVars, flagVars, putLog, taskVars, workerVars,
                    osVars, stopVars, csess >>

\* Mutant: a timeout always ends the stream.
TimeoutAlwaysEnds(s) == TRUE

\* Mutant: a timeout always yields a heartbeat.
TimeoutNeverEnds(s) == FALSE

\* What the generator does on asyncio.TimeoutError: it ends the stream when
\* the session is not running.
TimeoutEnds(s) == ~is_running[s]

\* wait_for timed out on an empty queue: a heartbeat while is_running, [END]
\* otherwise.
ConsumerTimeout(c) ==
    /\ LoopFree
    /\ cpc[c] = "on"
    /\ output_queue[csess[c]] = << >>
    /\ IF ~TimeoutEnds(csess[c])
       THEN /\ lastEvent' = [lastEvent EXCEPT ![c] = "heartbeat"]
            /\ UNCHANGED cpc
       ELSE /\ lastEvent' = [lastEvent EXCEPT ![c] = "end"]
            /\ cpc' = [cpc EXCEPT ![c] = "ended"]
    /\ UNCHANGED << platform, workload, classVars, updVars, regVars, fsVars, flagVars, qVars, taskVars, workerVars,
                    osVars, stopVars, csess, received, backlog >>

\* ------------------------------------------------------------- detect_project_type
\* A JSON value as far as the classifier reads it: an object with the keys it
\* has, null, an array, or no value (the field is absent).
Missing == [t |-> "missing", keys |-> {}]
Null == [t |-> "null", keys |-> {}]
Arr == [t |-> "array", keys |-> {}]
Map(keys) == [t |-> "object", keys |-> keys]

\* dict.get(field, {}) of a field that may be absent.
GetOr(v) == IF v.t = "missing" THEN Map({}) ELSE v

\* The text of a file: the empty string, text json.loads rejects, or text it
\* parses to a value.
Empty == [text |-> "empty"]
Invalid == [text |-> "invalid"]
Json(v) == [text |-> "json", value |-> v]

\* package.json documents: an object with its dependencies and
\* devDependencies fields, or a document that is not an object.
Pkg(deps, dev) == [t |-> "object", dependencies |-> deps, devDependencies |-> dev]

PkgDocs ==
    { Pkg(d, v) : d \in { Missing, Null, Map({"express"}), Map({"next", "vite"}),
                          Map({"react-scripts", "vite"}), Map({"vite"}) },
                  v \in { Missing, Map({"next"}) } }
    \cup { [t |-> "array"] }

\* package-lock.json documents: an object with its packages field (the
\* dependencies of the root entry "" and the other keys, each a path in
\* pieces), or a document that is not an object.
Packages(rootdeps, paths) == [t |-> "object", rootdeps |-> rootdeps, paths |-> paths]

Lock(packages) == [t |-> "object", packages |-> packages]

LockDocs ==
    { Lock(Packages(d, ks)) :
          d \in { Missing, Map({"vite"}), Map({"express"}) },
          ks \in { {}, { << "node_modules/", "next", "-tick" >> },
                   { << "node_modules/", "express" >> } } }
    \cup { Lock([t |-> "missing"]), [t |-> "array"] }

File(name, text) == [name |-> name, content |-> text]

\* The files of the submitted trees, directories flattened: collect_files
\* reads only the name and content of each file, in depth-first order.
Files ==
    { File("package.json", c) : c \in { Empty, Invalid } \cup { Json(v) : v \in PkgDocs } }
    \cup { File("package-lock.json", c) :
               c \in { Empty, Invalid } \cup { Json(v) : v \in LockDocs } }
    \cup { File(n, Invalid) :
               n \in { "requirements.txt", "main.py", "index.html", "README.md" } }

Trees == UNION { [1 .. n -> Files] : n \in 0 .. MaxFiles }

\* collect_files: the content kept for a manifest name is that of the last
\* file of that name whose content is not empty; None when there is none.
RECURSIVE ContentOf(_, _)
ContentOf(nodes, name) ==
    IF nodes = << >> THEN Empty
    ELSE LET f == nodes[Len(nodes)]
         IN  IF f.name = name /\ f.content # Empty THEN f.content
             ELSE ContentOf(SubSeq(nodes, 1, Len(nodes) - 1), name)

FileNames(nodes) == { nodes[i].name : i \in 1 .. Len(nodes) }

\* `marker in key` for a key given in pieces: the marker's pieces occur in it
\* side by side.
Contains(key, marker) ==
    \E i \in 0 .. Len(key) - Len(marker) :
        \A j \in 1 .. Len(marker) : key[i + j] = marker[j]

\* The framework chosen from a set of dependency names.
ByDeps(deps) ==
    IF "next" \in deps THEN "nextjs"
    ELSE IF "react-scripts" \in deps THEN "react-cra"
    ELSE IF "vite" \in deps THEN "vite"
    ELSE "nodejs"

\* The try block on package.json: what it returns or raises for a parsed
\* document.  pkg.get on a non-dict raises AttributeError, {**x} of a
\* non-mapping raises TypeError; only JSONDecodeError is caught.
FromPackageJson(pkg) ==
    IF pkg.t # "object" THEN "AttributeError"
    ELSE LET deps == GetOr(pkg.dependencies)
             dev == GetOr(pkg.devDependencies)
         IN  IF deps.t # "object" \/ dev.t # "object" THEN "TypeError"
             ELSE ByDeps(deps.keys \cup dev.keys)

\* The try block on package-lock.json.
FromPackageLock(lock) ==
    IF lock.t # "object" THEN "AttributeError"
    ELSE IF lock.packages.t = "missing" THEN "nodejs"
    ELSE LET root == GetOr(lock.packages.rootdeps).keys
             paths == lock.packages.paths
             named(m) == \E k \in paths : Contains(k, << "node_modules/", m >>)
         IN  IF ByDeps(root) # "nodejs" THEN ByDeps(root)
             ELSE IF named("next") THEN "nextjs"
             ELSE IF named("react-scripts") THEN "react-cra"
             ELSE IF named("vite") THEN "vite"
             ELSE "nodejs"

\* The rules after the manifests: python, simple-web, unknown.
FromFileNames(names) ==
    IF "requirements.txt" \in names THEN "python"
    ELSE IF "main.py" \in names THEN "python"
    ELSE IF "index.html" \in names THEN "simple-web"
    ELSE "unknown"

\* detect_project_type: the project type it returns, or the exception that
\* leaves it.
DetectProjectType(nodes) ==
    LET pkg == ContentOf(nodes, "package.json")
        lock == ContentOf(nodes, "package-lock.json")
    IN  IF pkg.text = "json" THEN FromPackageJson(pkg.value)
        ELSE IF lock.text = "json" THEN FromPackageLock(lock.value)
        ELSE FromFileNames(FileNames(nodes))

\* A call of detect_project_type on the tree.
Detect ==
    /\ detected = "none"
    /\ detected' = DetectProjectType(tree)
    /\ UNCHANGED << platform, workload, tree, patchVars, regVars, fsVars, flagVars,
                    qVars, taskVars, updVars, workerVars, osVars, stopVars, consVars >>

\* ------------------------------------------------------------- patch_nodejs_port
\* The text of an entry file as a sequence of pieces: one piece per digit,
\* punctuation mark and whitespace character, one per word.
IsDigit(c) == c \in {"0", "1", "2", "3", "4", "5", "6", "7", "8", "9"}

IsSpace(c) == c \in {" ", "\n"}

\* The piece at a position, "" past the end of the text.
At(t, i) == IF i \in 1 .. Len(t) THEN t[i] ELSE ""

\* \s*: the position after the whitespace that starts at i.
RECURSIVE SkipSpaces(_, _)
SkipSpaces(t, i) ==
    IF i <= Len(t) /\ IsSpace(t[i]) THEN SkipSpaces(t, i + 1) ELSE i

\* (\d{3,5})\s*[closers]: the digit counts with which the rest of the
\* pattern matches at k; the regex engine tries the longest first.
PortAt(t, k, closers) ==
    { n \in 3 .. 5 :
          /\ \A j \in 0 .. n - 1 : IsDigit(At(t, k + j))
          /\ At(t, SkipSpaces(t, k + n)) \in closers }

Longest(ns) == CHOOSE n \in ns : \A m \in ns : m <= n

NoMatch == [ok |-> FALSE, words |-> << >>, port |-> << >>, sep |-> "", end |-> 0]

\* r'\.listen\s*\(\s*(\d{3,5})\s*([,\)])' tried at position i.
ListenMatch(t, i) ==
    LET j == SkipSpaces(t, i + 1)
        k == SkipSpaces(t, j + 1)
        ns == PortAt(t, k, {",", ")"})
    IN  IF At(t, i) = ".listen" /\ At(t, j) = "(" /\ ns # {}
        THEN LET e == SkipSpaces(t, k + Longest(ns))
             IN  [ok |-> TRUE, words |-> << >>,
                  port |-> SubSeq(t, k, k + Longest(ns) - 1),
                  sep |-> t[e], end |-> e]
        ELSE NoMatch

\* r'(const|let|var)\s+(port|PORT)\s*=\s*(\d{3,5})\s*;' tried at position i.
AssignMatch(t, i) ==
    LET j == SkipSpaces(t, i + 1)
        q == SkipSpaces(t, j + 1)
        k == SkipSpaces(t, q + 1)
        ns == PortAt(t, k, {";"})
    IN  IF /\ At(t, i) \in {"const", "let", "var"}
           /\ IsSpace(At(t, i + 1))
           /\ At(t, j) \in {"port", "PORT"}
           /\ At(t, q) = "="
           /\ ns # {}
        THEN LET e == SkipSpaces(t, k + Longest(ns))
             IN  [ok |-> TRUE, words |-> << t[i], t[j] >>,
                  port |-> SubSeq(t, k, k + Longest(ns) - 1),
                  sep |-> t[e], end |-> e]
        ELSE NoMatch

\* The expression that reads the PORT environment variable with a fallback.
PortOr(n) == << "process.env.PORT", " ", "||", " " >> \o n

\* Mutant: the literal stays the first argument of listen and the
\* environment variable is passed after it.
ListenReplacementKeepsLiteral(m) ==
    << ".listen", "(" >> \o m.port \o << ",", " ", "process.env.PORT", m.sep >>

\* f'.listen(process.env.PORT || {m.group(1)}{m.group(2)}'
ListenReplacement(m) == << ".listen", "(" >> \o PortOr(m.port) \o << m.sep >>

\* f'{m.group(1)} {m.group(2)} = process.env.PORT || {m.group(3)};'
AssignReplacement(m) ==
    << m.words[1], " ", m.words[2], " ", "=", " " >> \o PortOr(m.port) \o << ";" >>

\* re.sub with the first pattern: matches are taken left to right and do not
\* overlap; what a replacement produced is not scanned again.
RECURSIVE SubListen(_, _)
SubListen(t, i) ==
    IF i > Len(t) THEN << >>
    ELSE IF ListenMatch(t, i).ok
    THEN ListenReplacement(ListenMatch(t, i)) \o SubListen(t, ListenMatch(t, i).end + 1)
    ELSE << t[i] >> \o SubListen(t, i + 1)

\* re.sub with the second pattern.
RECURSIVE SubAssign(_, _)
SubAssign(t, i) ==
    IF i > Len(t) THEN << >>
    ELSE IF AssignMatch(t, i).ok
    THEN AssignReplacement(AssignMatch(t, i)) \o SubAssign(t, AssignMatch(t, i).end + 1)
    ELSE << t[i] >> \o SubAssign(t, i + 1)

\* The content patch_nodejs_port computes for a file: the first substitution,
\* then the second on its result.
Patched(t) == SubAssign(SubListen(t, 1), 1)

\* Port literals of two to six digits.
Numbers ==
    { << "8", "0" >>, << "4", "4", "3" >>, << "3", "0", "0", "0" >>,
      << "6", "5", "5", "3", "5" >>, << "1", "2", "3", "4", "5", "6" >> }

\* The statements of the submitted entry files: a listen call with its
\* argument (a literal, a variable, or the environment variable with a
\* fallback), the whitespace around it and what follows it; an assignment
\* with its keyword, name, value and terminator.
ListenStatements ==
    { [kind |-> "listen", kw |-> "", name |-> "", ws |-> w, arg |-> a, close |-> c] :
          w \in { << >>, << " " >> },
          a \in Numbers \cup { << "PORT" >>, PortOr(<< "3", "0", "0", "0" >>) },
          c \in { ")", "," } }

AssignStatements ==
    { [kind |-> "assign", kw |-> k, name |-> n, ws |-> << >>, arg |-> a, close |-> c] :
          k \in { "const", "let", "var", "this." },
          n \in { "port", "PORT", "host" },
          a \in { << "4", "4", "3" >>, PortOr(<< "4", "4", "3" >>) },
          c \in { ";", "\n" } }

Statements == ListenStatements \cup AssignStatements

\* The text of a statement.
Render(st) ==
    IF st.kind = "listen"
    THEN << "app", ".listen", "(" >> \o st.ws \o st.arg \o st.ws \o << st.close >>
    ELSE << st.kw, " ", st.name, " ", "=", " " >> \o st.arg \o << st.close >>

RECURSIVE RenderAll(_)
RenderAll(prog) ==
    IF prog = << >> THEN << >> ELSE Render(Head(prog)) \o RenderAll(Tail(prog))

\* The submitted entry files: at most two statements.
Programs ==
    { << >> } \cup { << a >> : a \in Statements }
              \cup { << a, b >> : a \in Statements, b \in Statements }

\* One call of patch_nodejs_port on the project directory: the file is read,
\* rewritten when the substitutions changed its content, and listed in the
\* result only then.
PatchNodejsPort ==
    /\ Len(reports) < MaxPasses
    /\ content' = Patched(content)
    /\ reports' = Append(reports, Patched(content) # content)
    /\ UNCHANGED << platform, workload, tree, detected, program, regVars, fsVars,
                    flagVars, qVars, taskVars, updVars, workerVars, osVars,
                    stopVars, consVars >>

\* ------------------------------------------------------------- specification
Next ==
    \/ \E s \in SessionIds, layout \in Layouts, p \in Ports : RunProject(s, layout, p)
    \/ \E s \in SessionIds : ExecStart(s)
    \/ \E s \in SessionIds : LoopDeliver(s)
    \/ \E s \in SessionIds : WSpawn(s)
    \/ \E s \in SessionIds : WRead(s)
    \/ \E s \in SessionIds : WRelay(s)
    \/ \E s \in SessionIds : WWait(s)
    \/ \E s \in SessionIds, st \in Stages, rc \in {0, 1} : ChildExit(s, st, rc)
    \/ \E s \in SessionIds, st \in Stages : DescExit(s, st)
    \/ \E s \in SessionIds : StopCall(s)
    \/ \E s \in SessionIds : StopCheck(s)
    \/ \E s \in SessionIds : StopKill(s)
    \/ \E s \in SessionIds : StopAfterSleep(s)
    \/ \E s \in SessionIds : Cleanup(s)
    \/ \E s \in SessionIds, raw \in UpdatePaths : UpdateFile(s, raw)
    \/ \E c \in ConsumerIds, s \in SessionIds : Connect(c, s)
    \/ \E c \in ConsumerIds : ConsumerGet(c)
    \/ \E c \in ConsumerIds : ConsumerTimeout(c)

Spec == Init /\ [][Next]_vars

\* The steps the program takes by itself once they are enabled: the loop runs
\* its ready callbacks and coroutines, the pool thread runs, a timeout fires.
\* Requests and the child processes' own exits are the environment's.
ProgramStep ==
    \/ \E s \in SessionIds : ExecStart(s)
    \/ \E s \in SessionIds : LoopDeliver(s)
    \/ \E s \in SessionIds : WSpawn(s)
    \/ \E s \in SessionIds : WRead(s)
    \/ \E s \in SessionIds : WRelay(s)
    \/ \E s \in SessionIds : WWait(s)
    \/ \E s \in SessionIds : StopCheck(s)
    \/ \E s \in SessionIds : StopKill(s)
    \/ \E s \in SessionIds : StopAfterSleep(s)
    \/ \E c \in ConsumerIds : ConsumerGet(c)
    \/ \E c \in ConsumerIds : ConsumerTimeout(c)

FairSpec == Spec /\ WF_vars(ProgramStep)

\* Two sessions side by side: their creation, their tasks, their worker
\* threads and their child processes; no stop, stream, update or delete
\* request is made.
PairInit == workload \in PairWorkloads /\ tree = << >> /\ NoEntryFile /\ Constructed

PairNext ==
    \/ \E s \in SessionIds, layout \in Layouts, p \in Ports : RunProject(s, layout, p)
    \/ \E s \in SessionIds : ExecStart(s)
    \/ \E s \in SessionIds : LoopDeliver(s)
    \/ \E s \in SessionIds : WSpawn(s)
    \/ \E s \in SessionIds : WRead(s)
    \/ \E s \in SessionIds : WRelay(s)
    \/ \E s \in SessionIds : WWait(s)
    \/ \E s \in SessionIds, st \in Stages, rc \in {0, 1} : ChildExit(s, st, rc)
    \/ \E s \in SessionIds, st \in Stages : DescExit(s, st)

PairSpec == PairInit /\ [][PairNext]_vars

\* What one session's task and worker thread do by themselves: the loop runs
\* every ready callback in turn, and a pool thread that has a call runs it.
SessionStep(s) ==
    \/ ExecStart(s)
    \/ LoopDeliver(s)
    \/ WSpawn(s)
    \/ WRead(s)
    \/ WRelay(s)
    \/ WWait(s)

FairPairSpec == PairSpec /\ \A s \in SessionIds : WF_vars(SessionStep(s))

\* One session and the consumers of its stream; no stop, update or delete
\* request is made.
AudienceInit == workload \in AudienceWorkloads /\ tree = << >> /\ NoEntryFile /\ Constructed

AudienceNext ==
    \/ PairNext
    \/ \E c \in ConsumerIds, s \in SessionIds : Connect(c, s)
    \/ \E c \in ConsumerIds : ConsumerGet(c)
    \/ \E c \in ConsumerIds : ConsumerTimeout(c)

AudienceSpec == AudienceInit /\ [][AudienceNext]_vars

\* What one generator does by itself: its wait_for returns an item or times
\* out.
ConsumerStep(c) == ConsumerGet(c) \/ ConsumerTimeout(c)

FairAudienceSpec ==
    /\ AudienceSpec
    /\ \A s \in SessionIds : WF_vars(SessionStep(s))
    /\ \A c \in ConsumerIds : WF_vars(ConsumerStep(c))

\* The classifier alone, on every tree of at most MaxFiles files; nobody
\* creates a session.
Bystanders ==
    { [name |-> "none", creates |-> {}, projects |-> {}, stops |-> 0,
       lines |-> 0, consumers |-> {}, deletes |-> FALSE, updates |-> 0,
       port |-> 5001] }

ClassifyInit == workload \in Bystanders /\ tree \in Trees /\ NoEntryFile /\ Constructed

ClassifySpec == ClassifyInit /\ [][Detect]_vars

\* patch_nodejs_port alone, called MaxPasses times on every entry file of
\* Programs; nobody creates a session.
PatchInit ==
    /\ workload \in Bystanders
    /\ tree = << >>
    /\ program \in Programs
    /\ content = RenderAll(program)
    /\ Constructed

PatchSpec == PatchInit /\ [][PatchNodejsPort]_vars

\* ------------------------------------------------------------- claims
Last(q) == q[Len(q)]

\* C1: for every session on which execute_project was started, the end
\* marker is put on the session's output queue: once the task has ended,
\* by returning or by an exception leaving it, the marker has been put.
C1_EndMarkerPut ==
    \A s \in SessionIds :
        epc[s] \in {"done", "raised"} => CountEnd(putLog[s]) >= 1

\* C2: the end marker is the last item of a session's output queue: nothing
\* is put after it, and it is put at most once.
C2_EndMarkerLast ==
    \A s \in SessionIds :
        \A i \in 1 .. Len(putLog[s]) :
            putLog[s][i] = EndMarker => i = Len(putLog[s])

\* C2 witness: a session that relayed child output and was stopped has the
\* end marker as the last item put.
C2_Witness ==
    \E s \in SessionIds :
        /\ putLog[s] # << >>
        /\ Last(putLog[s]) = EndMarker
        /\ SelectLines(putLog[s]) # << >>
        /\ s \in stopTrue

\* The position of line i of q among the lines of its own step.
RankInStep(q, i) == Cardinality({ j \in 1 .. i : q[j][2] = q[i][2] })

\* C3: the lines the worker thread relayed are put on the output queue exactly
\* once and in the order the child wrote them (those not yet put are pending
\* on the loop in that order), and an item put stays in the queue until a
\* consumer takes it.
C3_LinesInOrder ==
    \A s \in SessionIds :
        LET lines == SelectLines(putLog[s]) \o SelectLines(loopq[s])
        IN  /\ lines = relayed[s]
            /\ \A i \in 1 .. Len(lines) : lines[i][3] = RankInStep(lines, i)
            /\ dequeued[s] \o output_queue[s] = putLog[s]

\* C3 witness: two lines of one process were put, the consumer has taken the
\* first and the second is still in the queue.
C3_Witness ==
    \E s \in SessionIds :
        /\ Line("run", 1) \in { dequeued[s][i] : i \in 1 .. Len(dequeued[s]) }
        /\ output_queue[s] # << >>
        /\ Head(output_queue[s]) = Line("run", 2)

\* C4: after stop_session returned True for a session, every consumer
\* connected to its output channel eventually emits the end event and
\* terminates, even if the child process never exits.
C4_StopEndsStreams ==
    \A c \in ConsumerIds :
        (cpc[c] = "on" /\ csess[c] \in stopTrue) ~> (cpc[c] = "ended")

\* C5: when stop_session found a process handle and the running flag set, the
\* whole process tree of that handle is terminated when it returns.
C5_TreeTerminated ==
    [][ \A s \in SessionIds :
            (spc[s] \in {"kill", "sleep"} /\ spc'[s] = "idle")
                => Tree(stopTarget[s]) \cap alive'[s] = {} ]_vars

\* The fields of a session, the processes it spawned and its queue.
SessionState(s) ==
    << process[s], is_running[s], should_stop[s], output_queue[s], alive[s],
       exitc[s], files[s], workspace[s] >>

\* C6: stop_session returns True exactly for an id that is in the registry
\* when it is called: a call that finds the id goes on to return True, and a
\* call that returns False was for an id not in the registry, sent no signal
\* and changed no session's state.
C6_StopReturnsRegistered ==
    [][ /\ nstops' # nstops =>
              \/ \E s \in SessionIds :
                    /\ s \in active_sessions
                    /\ spc[s] = "idle" /\ spc'[s] = "check"
                    /\ lastStop' = lastStop
              \/ /\ lastStop'.ret = "false"
                 /\ lastStop'.id \notin active_sessions
                 /\ spc' = spc
                 /\ \A s \in SessionIds : SessionState(s)' = SessionState(s)
                 /\ active_sessions' = active_sessions
        /\ \A s \in SessionIds :
              (spc[s] # "idle" /\ spc'[s] = "idle")
                  => (lastStop'.id = s /\ lastStop'.ret # "false") ]_vars

\* C6 witness: stop_session returned False for a session that had been
\* created and was deleted before the call.
C6_Witness ==
    /\ lastStop.ret = "false"
    /\ lastStop.id \in created
    /\ lastStop.id \notin active_sessions

\* C7: a second stop_session on a session for which stop_session already
\* returned True, and which is still in the registry, sends no termination
\* signal and changes no field of the session.
C7_SecondStopNoOp ==
    [][ \A s \in SessionIds :
            (s \in stopTrue /\ s \in active_sessions /\ spc'[s] # spc[s])
                => /\ spc'[s] # "kill"
                   /\ process'[s] = process[s]
                   /\ is_running'[s] = is_running[s]
                   /\ should_stop'[s] = should_stop[s]
                   /\ alive'[s] = alive[s] ]_vars

\* C8: stop_session never raises for a session it found: whatever the worker
\* thread did between its check and its kill calls, and whether or not a kill
\* call failed, it returns True with the running flag False.
C8_StopNeverRaises ==
    [][ \A s \in SessionIds :
            (spc[s] # "idle" /\ spc'[s] = "idle")
                => /\ lastStop'.id = s
                   /\ lastStop'.ret = "true"
                   /\ ~is_running'[s] ]_vars

\* C8 witness: stop_session returned True after its except clause caught an
\* exception (the worker had cleared the handle, or a kill call failed).
C8_Witness ==
    /\ lastStop.ret = "true"
    /\ lastStop.caught
    /\ ~is_running[lastStop.id]

\* The child output lines committed to a session's queue: put, scheduled on
\* the loop, or past the flag test and about to be handed off.
Committed(s) ==
    Len(SelectLines(putLog[s])) + Len(SelectLines(loopq[s]))
        + (IF wpc[s] = "relay" THEN 1 ELSE 0)

\* C9 as stated: once the stop flag is set, no further line of child output
\* is put on the session's queue, and the flag is never reset.
C9_NoLineAfterStop ==
    [][ \A s \in SessionIds :
            should_stop[s]
                => /\ should_stop'[s]
                   /\ SelectLines(putLog'[s]) = SelectLines(putLog[s]) ]_vars

\* C9 amended: once the stop flag is set, the worker thread commits no
\* further line (only lines that passed the flag test before, or are already
\* scheduled on the loop, are still put), and the flag is never reset.
C9_NoLineCommittedAfterStop ==
    [][ \A s \in SessionIds :
            should_stop[s]
                => /\ should_stop'[s]
                   /\ Committed(s)' = Committed(s) ]_vars

\* C9 witness: with the flag set, the worker read a line of a live process
\* and dropped it.
C9_Witness ==
    \E s \in SessionIds :
        /\ should_stop[s]
        /\ wpc[s] = "wait"
        /\ nread[s] = 1
        /\ Line(stage[s], 1) \notin { relayed[s][i] : i \in 1 .. Len(relayed[s]) }
        /\ << stage[s], "child" >> \in alive[s]

\* C10: after stop_session returned True the running flag never becomes true
\* again and no new child process is spawned for the session.
C10_StoppedIsTerminal ==
    [][ \A s \in SessionIds :
            s \in stopTrue
                => /\ is_running'[s] => is_running[s]
                   /\ alive'[s] \subseteq alive[s] ]_vars

\* Whether an item occurs in a sequence.
Has(q, item) == \E i \in 1 .. Len(q) : q[i] = item

\* C11: once the end marker has been put on a session's queue, no process is
\* spawned for the session any more, the worker thread is not running, and
\* the running flag is and stays false.
C11_NoRestart ==
    [][ \A s \in SessionIds :
            CountEnd(putLog'[s]) >= 1
                => /\ ~is_running'[s]
                   /\ alive'[s] \subseteq alive[s]
                   /\ wpc'[s] = "idle"
                   /\ process'[s] = NoProcess ]_vars

\* C11 witness: a session whose run command was started has its end marker
\* put, is still registered, and stop_session has returned True for it.
C11_Witness ==
    \E s \in active_sessions :
        /\ CountEnd(putLog[s]) >= 1
        /\ Has(putLog[s], Cmd("run"))
        /\ s \in stopTrue

\* The position of the first item of kind k in q, 0 if there is none.
FirstOf(q, k) ==
    IF \E i \in 1 .. Len(q) : q[i][1] = k
    THEN CHOOSE i \in 1 .. Len(q) :
             q[i][1] = k /\ \A j \in 1 .. i - 1 : q[j][1] # k
    ELSE 0

\* A node-family session whose install command was attempted and has exited
\* non-zero: the first exit message on its queue follows "$ npm install" and
\* carries a non-zero code.
InstallFailed(s) ==
    /\ project_type[s] \in NodeFamily
    /\ Has(putLog[s], Cmd("install"))
    /\ FirstOf(putLog[s], "exit") # 0
    /\ putLog[s][FirstOf(putLog[s], "exit")][3] # 0

\* C12: for such a session the queue holds, after "$ npm install", the lines
\* the worker relayed in order (or the spawn error), then the failure message
\* with the exit code, then the end marker as its last item; the task has
\* ended and no run command was started or spawned.
C12_InstallFailureAborts ==
    \A s \in SessionIds :
        InstallFailed(s) =>
            LET q == putLog[s]
                k == FirstOf(q, "cmd")
                j == FirstOf(q, "exit")
            IN  /\ q[k] = Cmd("install")
                /\ j = Len(q) - 1
                /\ q[Len(q)] = EndMarker
                /\ \A i \in k + 1 .. j - 1 :
                       \/ q[i] = Line("install", i - k)
                       \/ q[i] = Msg("suberr") /\ j = k + 2
                /\ SelectLines(q) = relayed[s]
                /\ loopq[s] = << >>
                /\ epc[s] = "done"
                /\ ~Has(q, Cmd("run"))
                /\ Tree("run") \cap alive[s] = {}
                /\ command[s] = CommandOf(s, "install")
                /\ ~is_running[s]

\* C12 witness: npm install wrote a line and exited with code 1 by itself
\* (no stop was requested); the queue ends with the line, the failure
\* message and the end marker.
C12_Witness ==
    \E s \in SessionIds :
        /\ InstallFailed(s)
        /\ ~should_stop[s]
        /\ Len(putLog[s]) >= 3
        /\ putLog[s][Len(putLog[s]) - 2] = Line("install", 1)
        /\ putLog[s][Len(putLog[s]) - 1] = ExitMsg(1)

\* The project types execute_project does not run.
StaticTypes == {"unknown", "simple-web"}

\* C13: for a session of type unknown or simple-web no process is ever
\* spawned, the process handle is never set, the running flag is never true,
\* no command is handed to run_command and the worker thread never runs.
C13_StaticNeverSpawns ==
    \A s \in created :
        project_type[s] \in StaticTypes
            => /\ alive[s] = {}
               /\ process[s] = NoProcess
               /\ ~is_running[s]
               /\ command[s] = NoCommand
               /\ wpc[s] = "idle"
               /\ stage[s] = "none"

\* C13 witness: a simple-web session whose task has ended and on which
\* stop_session was called and returned True.
C13_Witness ==
    \E s \in created :
        /\ project_type[s] = "simple-web"
        /\ epc[s] = "done"
        /\ s \in stopTrue

\* The informational message execute_project puts for a type it does not run.
StaticMsg(type) == IF type = "unknown" THEN Msg("unknown") ELSE Msg("simpleweb")

\* C14 as stated: for a session of type unknown or simple-web whose task has
\* ended, everything put on the queue since the session was created is one
\* informational message followed by the end marker.
C14_OneMessageThenEnd ==
    \A s \in created :
        (project_type[s] \in StaticTypes /\ epc[s] = "done")
            => putLog[s] = << StaticMsg(project_type[s]), EndMarker >>

\* C14 amended: everything put on such a session's queue is create_session's
\* two messages (session created, assigned port), then execute_project's one
\* informational message, then the end marker; before the task has run it is
\* the two messages of create_session alone.
C14_CreationMessagesThenOneThenEnd ==
    \A s \in created :
        project_type[s] \in StaticTypes
            => putLog[s] =
                  << Msg("created"), Msg("port") >>
                  \o (IF epc[s] = "done"
                      THEN << StaticMsg(project_type[s]), EndMarker >>
                      ELSE << >>)

\* C14 witness: a consumer of an unknown-type session has received the whole
\* sequence and ended on the end marker.
C14_Witness ==
    \E c \in ConsumerIds :
        /\ cpc[c] = "ended"
        /\ csess[c] \in created
        /\ project_type[csess[c]] = "unknown"
        /\ received[c] = putLog[csess[c]]
        /\ Len(received[c]) = 4

\* The direct children (the shells Popen started) of a session that are alive.
Children(s) == { p \in alive[s] : p[2] = "child" }

AllButCleaned ==
    << platform, workload, active_sessions, created, fsVars, updVars, flagVars,
       qVars, taskVars, workerVars, osVars, stopVars, consVars, classVars >>

\* C16: the registry holds exactly the ids create_session returned and
\* cleanup_session was not called with (so no stop, pipeline end, stream end
\* or update evicts a session); a stop_session call on a cleaned id never
\* gets past the lookup and returns False; and a cleanup call with an id that
\* is not registered changes nothing.
C16_RegistryTracksCreateAndCleanup ==
    /\ [](active_sessions = created \ cleaned)
    /\ [][ /\ \A s \in cleaned :
                 /\ spc[s] = "idle" => spc'[s] = "idle"
                 /\ (nstops' # nstops /\ lastStop'.id = s /\ spc[s] = "idle")
                        => lastStop'.ret = "false"
           /\ \A s \in cleaned' \ cleaned :
                 s \notin active_sessions => AllButCleaned' = AllButCleaned ]_vars

\* C16 witness: a created session was cleaned up, a stop_session call for it
\* then returned False, and a cleanup call was made with an id no session
\* ever had.
C16_Witness ==
    \E s \in created \cap cleaned :
        /\ s \notin active_sessions
        /\ lastStop = [id |-> s, ret |-> "false", caught |-> FALSE]
        /\ cleaned \ created # {}

\* C17: after cleanup_session of a session that was registered, neither the
\* directory create_session made with mkdtemp nor the project directory
\* inside it exists on disk.
C17_WorkspaceRemoved ==
    \A s \in created \cap cleaned : ~temp_dir[s] /\ ~workspace[s]

\* C18: the cleanup_session call that evicts a session sends no signal and
\* leaves the session's process handle, running flag, stop flag, processes,
\* queue, task and worker thread as they were.
C18_CleanupLeavesSessionRunning ==
    [][ \A s \in active_sessions \ active_sessions' :
            /\ flagVars' = flagVars
            /\ osVars' = osVars
            /\ qVars' = qVars
            /\ taskVars' = taskVars
            /\ workerVars' = workerVars
            /\ stopVars' = stopVars ]_vars

\* C18 witness: after its session was evicted and its directory removed, the
\* task went on: the next command failed to spawn in the missing directory
\* and the error and exit code -1 were put on the evicted session's queue.
C18_Witness ==
    \E s \in created \cap cleaned :
        /\ Has(putLog[s], Msg("suberr"))
        /\ Has(putLog[s], ExitMsg(-1))

\* Every variable except the record of update_file requests.
AllButUpdates ==
    << platform, workload, regVars, fsVars, flagVars, qVars, taskVars,
       workerVars, osVars, stopVars, consVars, classVars >>

\* C19: an update_file request whose path has a ".." segment, whichever
\* separators it is written with, is answered with an error (400, or 404 when
\* the id is not registered), and so is any request with an unregistered id;
\* in both cases no directory is created, no file is written and no
\* session's state changes.
C19_TraversalRejected ==
    [][ nupdates' # nupdates =>
            LET r == lastUpdate'
                traversal == \E i \in 1 .. Len(r.path) : r.path[i] = ".."
                known == r.id \in active_sessions
            IN  /\ ~known => r.status = 404
                /\ (known /\ traversal) => r.status = 400
                /\ (~known \/ traversal) => AllButUpdates' = AllButUpdates ]_vars

\* C19 witness: a request for a registered session with the path
\* "..\evil.py" was answered 400.
C19_Witness ==
    /\ lastUpdate.id \in active_sessions
    /\ lastUpdate.path = << "..", "\\", "evil.py" >>
    /\ lastUpdate.status = 400

\* C20: a session's port is assigned when it is created, before the task
\* plans any command, and does not change; and whenever a process of the run
\* command is spawned, that command binds the session's port, by a flag or by
\* a PORT assignment.
C20_RunCommandBindsSessionPort ==
    \A s \in created :
        /\ port[s] \in Ports
        /\ << "run", "child" >> \in alive[s]
              => /\ command[s].bind \in {"flag", "env"}
                 /\ command[s].port = port[s]

\* C21: sessions run independently: a command a session's pipeline handed to
\* the executor is started (its process spawned, or the spawn error
\* reported), whatever the child processes of the other sessions do, also
\* when they never exit and never write a line.
C21_SessionsIndependent ==
    \A s \in SessionIds : (wpc[s] = "spawn") ~> (wpc[s] # "spawn")

\* C22: no two sessions that are in the registry at the same time have the
\* same assigned port.
C22_DistinctPorts ==
    \A s \in active_sessions : \A t \in active_sessions \ {s} : port[s] # port[t]

\* C23: a session's process handle is present only while the session is
\* marked running: whenever the running flag is false the handle is absent.
C23_HandleOnlyWhileRunning ==
    \A s \in SessionIds : ~is_running[s] => process[s] = NoProcess

\* The execute_project task of a session has ended.
Finished(s) == epc[s] \in {"done", "raised"}

\* C24: every consumer connected to a session's stream emits the end event
\* and terminates once the session's pipeline has finished, whether it takes
\* the end marker from the queue itself or another consumer took it, before
\* or after this one connected.
C24_ConsumersEnd ==
    \A c \in ConsumerIds :
        (cpc[c] = "on" /\ Finished(csess[c])) ~> (cpc[c] = "ended")

\* C24 witness: both consumers of a finished session have ended; one dequeued
\* the end marker, the other connected afterwards, received nothing and ended
\* on a timeout.
C24_Witness ==
    \E c \in ConsumerIds, d \in ConsumerIds :
        /\ cpc[c] = "ended" /\ cpc[d] = "ended"
        /\ csess[c] = csess[d]
        /\ Finished(csess[c])
        /\ received[c] = putLog[csess[c]]
        /\ Last(received[c]) = EndMarker
        /\ received[d] = << >>
        /\ lastEvent[d] = "end"

\* C25 as stated: a consumer receives only items put on the queue after it
\* connected: whenever it is handed an item, none of the items that were in
\* the queue when it connected is still there to be handed to it.
C25_OnlyFutureEvents ==
    [][ \A c \in ConsumerIds :
            received'[c] # received[c] => backlog[c] = 0 ]_vars

\* C25 amended: a consumer starts with nothing and is handed, one at a time,
\* the oldest item that no consumer has dequeued yet, whether it was put
\* before or after the consumer connected; the item leaves the queue and no
\* other consumer is handed it, so nothing dequeued is ever delivered again.
C25_OnlyUndeliveredEvents ==
    [][ \A c \in ConsumerIds :
            /\ (cpc[c] = "off" /\ cpc'[c] = "on") => received'[c] = << >>
            /\ received'[c] # received[c] =>
                  LET s == csess[c]
                      item == putLog[s][Len(dequeued[s]) + 1]
                  IN  /\ received'[c] = Append(received[c], item)
                      /\ dequeued'[s] = Append(dequeued[s], item)
                      /\ output_queue'[s] = Tail(output_queue[s])
                      /\ \A d \in ConsumerIds \ {c} : received'[d] = received[d] ]_vars

\* C25 witness: one consumer took create_session's two messages, the other
\* connected to the same session and was handed the items from the third
\* on.
C25_Witness ==
    \E c \in ConsumerIds, d \in ConsumerIds :
        /\ c # d
        /\ csess[c] = csess[d]
        /\ received[d] = << Msg("created"), Msg("port") >>
        /\ Len(received[c]) >= 2
        /\ received[c][1] = putLog[csess[c]][3]
        /\ received[c][1] = Msg("detected")

\* The documents json.loads parses among the files of a name in a tree.
Parsed(nodes, name) ==
    { nodes[i].content.value :
          i \in { j \in 1 .. Len(nodes) :
                     nodes[j].name = name /\ nodes[j].content.text = "json" } }

\* The names in the dependencies and devDependencies of a package.json
\* document, merged.
Merged(pkg) ==
    IF pkg.t # "object" THEN {}
    ELSE (IF pkg.dependencies.t = "object" THEN pkg.dependencies.keys ELSE {})
         \cup (IF pkg.devDependencies.t = "object" THEN pkg.devDependencies.keys ELSE {})

\* C26: for a tree with a package.json that parses as a JSON object and whose
\* merged dependencies and devDependencies include next, what
\* detect_project_type returns is nextjs, whatever else the tree holds; for a
\* tree whose one package.json does not name next it is react-cra by
\* react-scripts, else vite by vite, else nodejs.  (The calls that raise
\* instead of returning are the subject of C28.)
C26_NextWins ==
    detected \in ProjectTypes =>
        LET docs == { pkg \in Parsed(tree, "package.json") : pkg.t = "object" }
            only == Cardinality({ i \in 1 .. Len(tree) :
                                     tree[i].name = "package.json" }) = 1
        IN  IF \E pkg \in docs : "next" \in Merged(pkg)
            THEN detected = "nextjs"
            ELSE \A pkg \in docs : only => detected = ByDeps(Merged(pkg))

\* The JSON objects among the documents json.loads parses for a file name.
Objects(nodes, name) == { doc \in Parsed(nodes, name) : doc.t = "object" }

\* C27: the rules apply in strict priority order: when the tree has a
\* package.json that parses, it alone decides what detect_project_type
\* returns; a package-lock.json decides only when no package.json parses, and
\* gives nodejs when none of its markers match; requirements.txt or a .py
\* file gives python, else index.html gives simple-web, else the result is
\* unknown, only when neither manifest decided.  (The calls that raise
\* instead of returning are the subject of C28.)
C27_PriorityOrder ==
    detected \in ProjectTypes =>
        LET pkgs == Objects(tree, "package.json")
            locks == Objects(tree, "package-lock.json")
        IN  IF pkgs # {}
            THEN \E pkg \in pkgs : detected = ByDeps(Merged(pkg))
            ELSE IF locks # {}
            THEN \E lock \in locks : detected = FromPackageLock(lock)
            ELSE detected = FromFileNames(FileNames(tree))

\* A package.json document the classifier can read: an object whose
\* dependencies and devDependencies, where present, are mappings.
WellFormed(pkg) ==
    /\ pkg.t = "object"
    /\ GetOr(pkg.dependencies).t = "object"
    /\ GetOr(pkg.devDependencies).t = "object"

\* C28: classification is never fatal: for every tree, also one whose
\* package.json or package-lock.json is not valid JSON, is JSON that is not an
\* object, or has a dependencies field that is not a mapping,
\* detect_project_type raises nothing and returns one of the seven project
\* types; when no manifest of the tree is readable the manifests count as
\* absent and the file names decide.
C28_NeverFatal ==
    detected # "none" =>
        /\ detected \in ProjectTypes
        /\ ( /\ \A pkg \in Parsed(tree, "package.json") : ~WellFormed(pkg)
             /\ Objects(tree, "package-lock.json") = {} )
               => detected = FromFileNames(FileNames(tree))

\* C29: the execute_project task never raises past its own boundary: no
\* failure inside it (reading the requirements manifest, preparing entry
\* files, spawning or reading a child process) ends the task with an
\* exception; the task always returns normally.
C29_TaskNeverRaises ==
    \A s \in SessionIds : epc[s] # "raised"

Count(q, item) == Cardinality({ i \in 1 .. Len(q) : q[i] = item })

\* run_command resumes in this step with the exit code of step st.
Resumes(s, st) ==
    /\ stage[s] = st
    /\ loopq[s] # << >>
    /\ Head(loopq[s])[1] = "done"
    /\ loopq'[s] = Tail(loopq[s])

\* The task ends in this step with the end marker as the last item put.
Aborts(s) ==
    /\ epc'[s] = "done"
    /\ stage'[s] = "none"
    /\ Last(putLog'[s]) = EndMarker
    /\ ~Has(putLog'[s], Cmd("run"))

\* The task hands the command of step st to run_command in this step.
Starts(s, st) ==
    /\ stage'[s] = st
    /\ wpc'[s] = "spawn"
    /\ Last(putLog'[s]) = Cmd(st)

\* No line of requirements.txt names a package.
NoNames(req) == \A i \in 1 .. Len(req) : req[i].name = ""

\* C31: for a python session with requirements.txt the install is attempted
\* at most twice: pip install -r is started at most once and the retry
\* without pins at most once, the retry only when the first install returned
\* a non-zero code; when the retry returns non-zero, or no package name is
\* left after stripping, the end marker is put, the task ends and the run
\* command is never started; when either attempt returns zero the run
\* command is started.
C31_InstallAtMostTwice ==
    [][ \A s \in SessionIds :
            project_type[s] = "python" =>
                LET rc == Head(loopq[s])[3]
                IN  /\ Count(putLog'[s], Cmd("pyinstall")) <= 1
                    /\ Count(putLog'[s], Cmd("pyretry")) <= 1
                    /\ (stage'[s] = "pyretry" /\ stage[s] # "pyretry")
                          => Resumes(s, "pyinstall") /\ rc # 0
                    /\ (Resumes(s, "pyinstall") /\ rc = 0) => Starts(s, "run")
                    /\ ( /\ Resumes(s, "pyinstall") /\ rc # 0
                         /\ "requirements.txt" \in files[s] ) =>
                           IF NoNames(requirements[s])
                           THEN Aborts(s) ELSE Starts(s, "pyretry")
                    /\ (Resumes(s, "pyretry") /\ rc = 0) => Starts(s, "run")
                    /\ (Resumes(s, "pyretry") /\ rc # 0) => Aborts(s)
                    /\ (epc[s] = "done" /\ ~Has(putLog[s], Cmd("run")))
                          => /\ ~Has(putLog'[s], Cmd("run"))
                             /\ Tree("run") \cap alive'[s] = {} ]_vars

\* C31 witness: pip install -r failed, the retry without pins succeeded and
\* the run command's process is alive.
C31_Witness ==
    \E s \in SessionIds :
        /\ project_type[s] = "python"
        /\ Has(putLog[s], Cmd("pyinstall"))
        /\ Has(putLog[s], ExitMsg(1))
        /\ Has(putLog[s], Cmd("pyretry"))
        /\ Has(putLog[s], ExitMsg(0))
        /\ << "run", "child" >> \in alive[s]

\* A generator's wait on the queue timed out in this step: it yields an
\* event without having been handed an item.
TimedOut(c) ==
    /\ cpc[c] = "on"
    /\ received'[c] = received[c]
    /\ lastEvent'[c] # lastEvent[c] \/ cpc'[c] # cpc[c]

\* C32: a consumer whose wait times out finds the queue empty; it yields a
\* heartbeat and keeps waiting when the session's running flag is true, and
\* yields the end event and terminates when the flag is false.  A consumer
\* that dequeues the end marker yields the end event and terminates; a
\* terminated consumer reads nothing further.
C32_TimeoutHeartbeatOrEnd ==
    [][ \A c \in ConsumerIds :
            /\ TimedOut(c) =>
                  /\ output_queue[csess[c]] = << >>
                  /\ IF is_running[csess[c]]
                     THEN lastEvent'[c] = "heartbeat" /\ cpc'[c] = "on"
                     ELSE lastEvent'[c] = "end" /\ cpc'[c] = "ended"
            /\ received'[c] = Append(received[c], EndMarker) =>
                  lastEvent'[c] = "end" /\ cpc'[c] = "ended"
            /\ cpc[c] = "ended" =>
                  /\ cpc'[c] = "ended"
                  /\ received'[c] = received[c]
                  /\ lastEvent'[c] = "end" ]_vars

\* C32 witness: a consumer took every item of a session whose child was
\* still running, stop_session cleared the running flag, and the consumer's
\* next timeout ended its stream without an end marker.
C32_Witness ==
    \E c \in ConsumerIds :
        /\ cpc[c] = "ended"
        /\ lastEvent[c] = "end"
        /\ received[c] # << >>
        /\ ~Has(received[c], EndMarker)
        /\ csess[c] \in stopTrue
        /\ ~is_running[csess[c]]

\* C33: a consumer yields the end event only when the session's pipeline has
\* finished: at that moment the execute_project task has ended, no child
\* process of the session is alive, and neither the worker thread nor the
\* loop holds output that is still to be put on the queue.
C33_EndOnlyWhenFinished ==
    [][ \A c \in ConsumerIds :
            (cpc[c] = "on" /\ cpc'[c] = "ended") =>
                LET s == csess[c]
                IN  /\ Finished(s)
                    /\ \A st \in Stages : << st, "child" >> \notin alive[s]
                    /\ wpc[s] = "idle"
                    /\ loopq[s] = << >> ]_vars

\* The generators connected to a session's stream, ended ones included.
ConsumersOf(s) == { c \in ConsumerIds : cpc[c] # "off" /\ csess[c] = s }

\* The items of q at the positions a hands to c, in order.
Share(q, a, c) == SelectSeq([i \in 1 .. Len(q) |-> << q[i], a[i] >>],
                            LAMBDA x : x[2] = c)

\* C34: with several consumers on one session's queue every item put is
\* handed to exactly one of them: what was put is what was dequeued followed
\* by what is still queued (nothing is lost, nothing is dequeued twice), and
\* the dequeued items can be dealt to the consumers, each item to one
\* consumer, so that each consumer's share in queue order is exactly what it
\* received.
C34_ExactlyOneConsumer ==
    \A s \in SessionIds :
        /\ putLog[s] = dequeued[s] \o output_queue[s]
        /\ \E a \in [1 .. Len(dequeued[s]) -> ConsumersOf(s) \cup {"nobody"}] :
               /\ \A i \in 1 .. Len(a) : a[i] # "nobody"
               /\ \A c \in ConsumersOf(s) :
                      [i \in 1 .. Len(received[c]) |-> << received[c][i], c >>]
                          = Share(dequeued[s], a, c)

\* C34 witness: two consumers of one finished session emptied its queue in
\* turns: one was handed the first and third item, the other the second.
C34_Witness ==
    \E c \in ConsumerIds, d \in ConsumerIds, s \in SessionIds :
        /\ c # d
        /\ ConsumersOf(s) = {c, d}
        /\ Finished(s)
        /\ output_queue[s] = << >>
        /\ Len(received[c]) >= 2 /\ Len(received[d]) >= 1
        /\ received[c][1] = putLog[s][1]
        /\ received[d][1] = putLog[s][2]
        /\ received[c][2] = putLog[s][3]

\* C35: on POSIX a stop of a running session with a process handle sends
\* the graceful signal to that process first and the force-kill only after
\* the grace period: the step that sends the graceful signal force-kills
\* nothing, and the process force-killed after the sleep is the one the
\* graceful signal was sent to, still alive at that moment, and no other.
C35_GracefulBeforeForce ==
    [][ \A s \in SessionIds :
            LET ended == alive[s] \ alive'[s]
            IN  /\ (spc[s] = "kill" /\ spc'[s] = "sleep") =>
                      /\ platform' = "posix"
                      /\ ended \subseteq { << stopTarget[s], "child" >> }
                      /\ ended # {} => exitc'[s] = -15
                /\ (spc[s] = "sleep" /\ spc'[s] = "idle") =>
                      /\ platform = "posix"
                      /\ ended \subseteq { << stopTarget[s], "child" >> }
                      /\ ended # {} => exitc'[s] = -9 ]_vars

\* What execute_project tests before the install command: the project
\* directory has no node_modules and has a package.json.
NeedsInstall(s) == "node_modules" \notin files[s] /\ "package.json" \in files[s]

\* C36: for a node-family session the install command is started exactly
\* when the project directory has no node_modules and has a package.json, at
\* the task's first step and at no other time; otherwise the task goes
\* straight to the run command, with the warning when neither node_modules
\* nor package.json exists, and no install command is ever started and no
\* install process ever exists.
C36_InstallOnlyWhenNeeded ==
    [][ \A s \in SessionIds :
            project_type'[s] \in NodeFamily =>
                /\ (epc[s] = "start" /\ epc'[s] # "start") =>
                      /\ IF NeedsInstall(s)
                         THEN Starts(s, "install")
                         ELSE Starts(s, "run") /\ ~Has(putLog'[s], Cmd("install"))
                      /\ Has(putLog'[s], Msg("nopackagejson"))
                            <=> ( /\ "node_modules" \notin files[s]
                                  /\ "package.json" \notin files[s] )
                /\ (stage'[s] = "install" /\ stage[s] # "install") =>
                      epc[s] = "start" /\ NeedsInstall(s)
                /\ Count(putLog'[s], Cmd("install")) <= 1
                /\ Tree("install") \cap alive'[s] # {} =>
                      Has(putLog'[s], Cmd("install")) ]_vars

\* C36 witness: a nodejs session without package.json and node_modules: the
\* warning was put, no install command was started, and the run command's
\* process is alive.
C36_Witness ==
    \E s \in SessionIds :
        /\ project_type[s] = "nodejs"
        /\ Has(putLog[s], Msg("nopackagejson"))
        /\ ~Has(putLog[s], Cmd("install"))
        /\ << "run", "child" >> \in alive[s]

\* A statement with a hardcoded port: a listen call whose first argument is
\* a literal of 3 to 5 digits, or a const/let/var assignment of such a
\* literal to port or PORT that ends with a semicolon.
Hardcoded(st) ==
    /\ Len(st.arg) \in 3 .. 5
    /\ \A i \in 1 .. Len(st.arg) : IsDigit(st.arg[i])
    /\ st.kind = "assign" =>
          /\ st.kw \in {"const", "let", "var"}
          /\ st.name \in {"port", "PORT"}
          /\ st.close = ";"

\* What a statement is to read after patching: the literal N replaced by
\* process.env.PORT || N, anything else as it was.
Expected(st) ==
    IF ~Hardcoded(st) THEN Render(st)
    ELSE IF st.kind = "listen"
    THEN << "app", ".listen", "(", "process.env.PORT", " ", "||", " " >>
             \o st.arg \o << st.close >>
    ELSE << st.kw, " ", st.name, " ", "=", " ", "process.env.PORT", " ", "||", " " >>
             \o st.arg \o << ";" >>

RECURSIVE ExpectedAll(_)
ExpectedAll(prog) ==
    IF prog = << >> THEN << >> ELSE Expected(Head(prog)) \o ExpectedAll(Tail(prog))

\* C37: patch_nodejs_port is idempotent.  Its first call rewrites every
\* hardcoded port of the file, in .listen(N) and in const/let/var port/PORT
\* = N;, to process.env.PORT || N, leaves every other statement (a port of
\* fewer than 3 or more than 5 digits, a variable, an expression that
\* already reads the environment) as it was, and lists the file exactly
\* when it changed it; every later call leaves the content as the first
\* call left it and lists no file.
C37_PatchIdempotent ==
    [][ IF reports = << >>
        THEN /\ content' = ExpectedAll(program)
             /\ reports' = << \E i \in 1 .. Len(program) : Hardcoded(program[i]) >>
        ELSE /\ content' = content
             /\ reports' = Append(reports, FALSE) ]_vars

\* C37 witness: a file with `const PORT = 443;` and `app.listen( 3000 )` was
\* patched twice: the first call rewrote both statements and listed the
\* file, the second changed nothing and listed none.
C37_Witness ==
    /\ reports = << TRUE, FALSE >>
    /\ Len(program) = 2
    /\ program[1].kind = "assign" /\ Hardcoded(program[1])
    /\ program[2].kind = "listen" /\ Hardcoded(program[2])
    /\ program[2].ws = << " " >>
    /\ content = << "const", " ", "PORT", " ", "=", " ", "process.env.PORT", " ", "||", " ",
                    "4", "4", "3", ";",
                    "app", ".listen", "(", "process.env.PORT", " ", "||", " ",
                    "3", "0", "0", "0", ")" >>

====
